---------------------------- MODULE Spec2Model ----------------------------
(***************************************************************************)
(* Model of backend/main.py: the POST /api/query handler (handle_query),   *)
(* the three LangChain tools, and the ReAct agent loop run by              *)
(* agent_executor.invoke.                                                  *)
(*                                                                         *)
(* Texts are sequences of one-character strings.  The backtick cannot      *)
(* occur in a TLA+ string, so the character "~" stands for it throughout.  *)
(* Indices follow Python: the first character of s is s[0], modelled by    *)
(* the TLA+ element s[1].                                                  *)
(***************************************************************************)
EXTENDS Integers, Sequences, FiniteSets, TLC

(***************************************************************************)
(* Bounds of the model.                                                    *)
(***************************************************************************)
MaxChunks == 4
MaxSteps == 2

(***************************************************************************)
(* The pieces final-answer texts are built from.                           *)
(***************************************************************************)
OPEN == <<"~", "~", "~", "j", "s", "o", "n">>
FENCE == <<"~", "~", "~">>
SP == <<" ">>
LB == <<"{">>
RB == <<"}">>
WORD == <<"x">>
\* {"type":"text","data":"X"}
OBJ == <<"{", "\"", "t", "y", "p", "e", "\"", ":", "\"", "t", "e", "x", "t", "\"", ",",
         "\"", "d", "a", "t", "a", "\"", ":", "\"", "X", "\"", "}">>
\* {"data":"~~~"} : an object whose string value holds three backticks
TOBJ == <<"{", "\"", "d", "a", "t", "a", "\"", ":", "\"", "~", "~", "~", "\"", "}">>

Chunks == {OPEN, FENCE, SP, LB, RB, WORD, OBJ, TOBJ}

RECURSIVE Concat(_)
Concat(cs) == IF cs = <<>> THEN <<>> ELSE Head(cs) \o Concat(Tail(cs))

ChunkSeqs(n) == UNION {[1..k -> Chunks] : k \in 0..n}

Texts == {Concat(cs) : cs \in ChunkSeqs(MaxChunks)}

(***************************************************************************)
(* Python string operations used by handle_query.                          *)
(***************************************************************************)
\* s[a:b] for 0 <= a and 0 <= b
Slice(s, a, b) == SubSeq(s, a + 1, IF b < Len(s) THEN b ELSE Len(s))

\* str.find(c): lowest index of the character c, or -1
find(s, c) ==
  LET hits == {i \in 0..(Len(s) - 1) : s[i + 1] = c}
  IN  IF hits = {} THEN -1 ELSE CHOOSE i \in hits : \A j \in hits : i <= j

\* str.rfind(c): highest index of the character c, or -1
rfind(s, c) ==
  LET hits == {i \in 0..(Len(s) - 1) : s[i + 1] = c}
  IN  IF hits = {} THEN -1 ELSE CHOOSE i \in hits : \A j \in hits : j <= i

IsSpace(c) == c = " "

\* str.strip()
RECURSIVE lstrip(_)
lstrip(s) == IF s # <<>> /\ IsSpace(Head(s)) THEN lstrip(Tail(s)) ELSE s

RECURSIVE rstrip(_)
rstrip(s) == IF s # <<>> /\ IsSpace(s[Len(s)]) THEN rstrip(SubSeq(s, 1, Len(s) - 1)) ELSE s

strip(s) == rstrip(lstrip(s))

\* a character sequence as a string value
RECURSIVE Str(_)
Str(s) == IF s = <<>> THEN "" ELSE Head(s) \o Str(Tail(s))

(***************************************************************************)
(* re.search(r"~~~json\s*(.*?)\s*~~~", s, re.DOTALL), line 259.            *)
(* The leftmost "~~~json" that some later "~~~" closes starts the match;   *)
(* the greedy \s* takes the white space after it; the lazy group then      *)
(* ends as early as possible, that is before the white space in front of   *)
(* the first "~~~" that follows.                                           *)
(***************************************************************************)
Opens(s) == {i \in 0..(Len(s) - Len(OPEN)) : Slice(s, i, i + Len(OPEN)) = OPEN}

Closes(s, from) == {j \in from..(Len(s) - Len(FENCE)) : Slice(s, j, j + Len(FENCE)) = FENCE}

Least(S) == CHOOSE i \in S : \A j \in S : i <= j

Greatest(S) == CHOOSE i \in S : \A j \in S : j <= i

NoMatch == [matched |-> FALSE, group |-> <<>>]

\* the pattern with a greedy group: the block runs to the last "~~~"
re_search_greedy(s) ==
  LET starts == {i \in Opens(s) : Closes(s, i + Len(OPEN)) # {}}
  IN  IF starts = {} THEN NoMatch
      ELSE LET i == Least(starts)
               c == Greatest(Closes(s, i + Len(OPEN)))
               inner == Slice(s, i + Len(OPEN), c)
           IN  [matched |-> TRUE, group |-> rstrip(lstrip(inner))]

re_search(s) ==
  LET starts == {i \in Opens(s) : Closes(s, i + Len(OPEN)) # {}}
  IN  IF starts = {} THEN NoMatch
      ELSE LET i == Least(starts)
               c == Least(Closes(s, i + Len(OPEN)))
               inner == Slice(s, i + Len(OPEN), c)
           IN  [matched |-> TRUE, group |-> rstrip(lstrip(inner))]

(***************************************************************************)
(* json.loads (line 272) on the characters the texts are built from:       *)
(* white space, objects and strings.  Every other character where a value  *)
(* is expected, an unterminated string or object, and data after the value *)
(* raise json.JSONDecodeError.  Positions here are TLA+ positions.         *)
(***************************************************************************)
Bad == [ok |-> FALSE, val |-> <<>>, next |-> 0]

RECURSIVE SkipWs(_, _)
SkipWs(s, i) == IF i <= Len(s) /\ IsSpace(s[i]) THEN SkipWs(s, i + 1) ELSE i

\* s[i] is the opening quote
ParseString(s, i) ==
  LET ends == {j \in (i + 1)..Len(s) : s[j] = "\""}
  IN  IF ends = {} THEN Bad
      ELSE LET j == Least(ends)
           IN  [ok |-> TRUE, val |-> Str(SubSeq(s, i + 1, j - 1)), next |-> j + 1]

RECURSIVE ParseValue(_, _)
RECURSIVE ParseMembers(_, _, _)

\* i is the position of a member's key; acc holds the members parsed so far
ParseMembers(s, i, acc) ==
  IF i > Len(s) \/ s[i] # "\"" THEN Bad
  ELSE LET key == ParseString(s, i)
       IN  IF ~key.ok THEN Bad
           ELSE LET colon == SkipWs(s, key.next)
                IN  IF colon > Len(s) \/ s[colon] # ":" THEN Bad
                    ELSE LET v == ParseValue(s, SkipWs(s, colon + 1))
                         IN  IF ~v.ok THEN Bad
                             ELSE LET obj == (key.val :> v.val) @@ acc
                                      k == SkipWs(s, v.next)
                                  IN  IF k > Len(s) THEN Bad
                                      ELSE IF s[k] = "}" THEN [ok |-> TRUE, val |-> obj, next |-> k + 1]
                                      ELSE IF s[k] = "," THEN ParseMembers(s, SkipWs(s, k + 1), obj)
                                      ELSE Bad

ParseValue(s, i) ==
  IF i > Len(s) THEN Bad
  ELSE IF s[i] = "\"" THEN ParseString(s, i)
  ELSE IF s[i] = "{" THEN
         LET k == SkipWs(s, i + 1)
         IN  IF k <= Len(s) /\ s[k] = "}" THEN [ok |-> TRUE, val |-> <<>>, next |-> k + 1]
             ELSE ParseMembers(s, k, <<>>)
  ELSE Bad

json_loads(s) ==
  LET v == ParseValue(s, SkipWs(s, 1))
  IN  IF v.ok /\ SkipWs(s, v.next) = Len(s) + 1 THEN [ok |-> TRUE, val |-> v.val]
      ELSE [ok |-> FALSE, val |-> <<>>]

(***************************************************************************)
(* Python values of the handler's locals.                                  *)
(***************************************************************************)
Unbound == [py |-> "unbound", s |-> <<>>]
PyNone == [py |-> "None", s |-> <<>>]
PyStr(s) == [py |-> "str", s |-> s]

\* the test "json_str is not None" in place of the truth value
Truthy_IsNotNone(v) == v.py = "str"

\* truth value of a local holding None or a str
Truthy(v) == v.py = "str" /\ v.s # <<>>

\* the fallback without the + 1 on the index of the last "}"
extract_json_off_by_one(output_str) ==
  LET match == re_search(output_str)
  IN  IF match.matched THEN PyStr(strip(match.group))
      ELSE LET start_index == find(output_str, "{")
               end_index == rfind(output_str, "}")
           IN  IF start_index # -1 /\ end_index # -1
               THEN PyStr(Slice(output_str, start_index, end_index))
               ELSE PyNone

(***************************************************************************)
(* Lines 258-266: the candidate string taken from the final-answer text.   *)
(***************************************************************************)
extract_json(output_str) ==
  LET match == re_search(output_str)
  IN  IF match.matched THEN PyStr(strip(match.group))
      ELSE LET start_index == find(output_str, "{")
               end_index == rfind(output_str, "}") + 1
           IN  IF start_index # -1 /\ end_index # -1
               THEN PyStr(Slice(output_str, start_index, end_index))
               ELSE PyNone

(***************************************************************************)
(* Responses.  A dict returned by the handler is sent with status 200 as   *)
(* JSON; HTTPException(500, detail) is sent as {"detail": ...}; an         *)
(* exception that leaves the handler is answered by the framework with a   *)
(* plain-text 500.                                                         *)
(***************************************************************************)
NoResp == [status |-> 0, media |-> "none", body |-> <<>>]
Ok(body) == [status |-> 200, media |-> "json", body |-> body]
HttpError(detail) == [status |-> 500, media |-> "json", body |-> [detail |-> detail]]
Unhandled == [status |-> 500, media |-> "text", body |-> <<>>]

\* the envelope with its text under the key message
ExtractionError_message ==
  [type |-> "error", message |-> "The model did not return a valid JSON response."]

\* line 270
ExtractionError == [type |-> "error", data |-> "The model did not return a valid JSON response."]

\* line 276
DecodeError(output_str) ==
  [type |-> "error", data |-> "Failed to decode the JSON response from the model.",
   raw_output |-> Str(output_str)]

(***************************************************************************)
(* The tools, lines 124-165.  Each takes the input string and the outcome  *)
(* of its store call, and yields what the call does: the value returned    *)
(* (a string, described by what it holds), or the exception that leaves    *)
(* the tool, and whether the store was called and written.                 *)
(***************************************************************************)
RegisteredTools == {"query_financial_data", "get_client_profile_by_name",
                    "find_clients_by_risk_appetite"}

ToolInputs == {"", "Virat Kohli", "HIGH", "bogus", "SELECT", "DELETE"}

\* str.title() on the inputs
title(s) ==
  CASE s = "HIGH" -> "High"
    [] s = "bogus" -> "Bogus"
    [] s = "SELECT" -> "Select"
    [] s = "DELETE" -> "Delete"
    [] OTHER -> s

Returned(holds, store_called, wrote) ==
  [raised |-> FALSE, holds |-> holds, store_called |-> store_called, wrote |-> wrote]

Raised == [raised |-> TRUE, holds |-> "nothing", store_called |-> TRUE, wrote |-> FALSE]

\* what postgres_db.run can do with the statement
SqlOutcomes(sql_query) ==
  IF sql_query \in {"SELECT", "DELETE"} THEN {"ok", "raise"} ELSE {"raise"}

\* lines 133-136
query_financial_data(sql_query, outcome) ==
  IF outcome = "raise" THEN Returned("sql error text", TRUE, FALSE)
  ELSE Returned("sql result text", TRUE, sql_query = "DELETE")

\* what profiles_collection.find_one can do
FindOneOutcomes(client_name) ==
  IF client_name = "Virat Kohli" THEN {"document", "raise"} ELSE {"None", "raise"}

\* lines 146-153
get_client_profile_by_name(client_name, outcome) ==
  IF client_name = "" THEN Returned("json error object", FALSE, FALSE)
  ELSE IF outcome = "raise" THEN Raised
  ELSE IF outcome = "document" THEN Returned("json profile", TRUE, FALSE)
  ELSE Returned("json error object", TRUE, FALSE)

\* what profiles_collection.find can do
FindOutcomes == {"documents", "raise"}

\* lines 162-165
find_clients_by_risk_appetite(risk_level, outcome) ==
  IF title(risk_level) \notin {"High", "Medium", "Low"}
  THEN Returned("json error object", FALSE, FALSE)
  ELSE IF outcome = "raise" THEN Raised
  ELSE Returned("json client list", TRUE, FALSE)

(***************************************************************************)
(* State.                                                                  *)
(***************************************************************************)
Requests == {1, 2}

VARIABLES
  pc,          \* where each request's handle_query stands
  state,       \* the state of each request's agent loop
  iterations,  \* the loop's step count
  transcript,  \* the loop's intermediate steps
  llm_out,     \* the model's latest output, as the loop parsed it
  inflight,    \* the tool invocations started and not yet returned
  obs,         \* the outcome of the tool call just made
  exc,         \* the exception travelling to the handler's except clauses
  output_str,  \* the handler's locals
  json_str,
  resp,        \* the HTTP response sent
  store        \* whose SQL last changed the relational store (0: the seed data)

vars == <<pc, state, iterations, transcript, llm_out, inflight, obs, exc,
          output_str, json_str, resp, store>>

loopvars == <<state, iterations, transcript, llm_out, inflight, obs>>
handlervars == <<output_str, json_str, resp>>

NoObs == [req |-> 0, tool |-> "none", input |-> "", raised |-> FALSE, holds |-> "nothing",
          store_called |-> FALSE, wrote |-> FALSE, saw |-> 0]
NoOut == [kind |-> "none", tool |-> "none"]

Init ==
  /\ pc = [r \in Requests |-> "idle"]
  /\ state = [r \in Requests |-> "None"]
  /\ iterations = [r \in Requests |-> 0]
  /\ transcript = [r \in Requests |-> <<>>]
  /\ llm_out = [r \in Requests |-> NoOut]
  /\ inflight = [r \in Requests |-> {}]
  /\ obs = [r \in Requests |-> NoObs]
  /\ exc = [r \in Requests |-> "none"]
  /\ output_str = [r \in Requests |-> Unbound]
  /\ json_str = [r \in Requests |-> Unbound]
  /\ resp = [r \in Requests |-> NoResp]
  /\ store = 0

(***************************************************************************)
(* handle_query, line 253-255: the request arrives and the handler calls   *)
(* agent_executor.invoke, whose loop starts in Thinking.                   *)
(***************************************************************************)
Receive(r) ==
  /\ pc[r] = "idle"
  /\ pc' = [pc EXCEPT ![r] = "invoke"]
  /\ state' = [state EXCEPT ![r] = "Thinking"]
  /\ UNCHANGED <<iterations, transcript, llm_out, inflight, obs, exc, handlervars, store>>

(***************************************************************************)
(* The agent loop.  A step asks the model, given the transcript so far,    *)
(* for its next output and acts on it; the loop asks only while the step   *)
(* count is below the ceiling.                                             *)
(***************************************************************************)
\* the loop asking without a ceiling on its steps
Asking_NoCeiling(r) == pc[r] = "invoke" /\ state[r] = "Thinking"

Asking(r) == pc[r] = "invoke" /\ state[r] = "Thinking" /\ iterations[r] < MaxSteps

Note(r, kind, tool) == [req |-> r, kind |-> kind, tool |-> tool, saw |-> 0]

\* the loop's locals are dropped when invoke returns or raises
LeaveLoop(r) ==
  /\ iterations' = [iterations EXCEPT ![r] = 0]
  /\ transcript' = [transcript EXCEPT ![r] = <<>>]
  /\ inflight' = [inflight EXCEPT ![r] = {}]

\* Thinking -> ActingTool: the model names a registered tool
ThinkAction(r, I) ==
  /\ Asking(r)
  /\ \E tool \in RegisteredTools, input \in I :
       /\ llm_out' = [llm_out EXCEPT ![r] = [kind |-> "action", tool |-> tool]]
       /\ inflight' = [inflight EXCEPT ![r] = @ \cup {[tool |-> tool, input |-> input]}]
  /\ state' = [state EXCEPT ![r] = "ActingTool"]
  /\ UNCHANGED <<pc, iterations, transcript, obs, exc, handlervars, store>>

\* the model names a tool that is not registered: an error note, and ask again
ThinkInvalidTool(r) ==
  /\ Asking(r)
  /\ llm_out' = [llm_out EXCEPT ![r] = [kind |-> "action", tool |-> "unknown_tool"]]
  /\ transcript' = [transcript EXCEPT ![r] = Append(@, Note(r, "invalid_tool", "unknown_tool"))]
  /\ iterations' = [iterations EXCEPT ![r] = @ + 1]
  /\ UNCHANGED <<pc, state, inflight, obs, exc, handlervars, store>>

\* handle_parsing_errors left off: the parse error leaves invoke
ThinkMalformed_Raises(r) ==
  /\ pc[r] = "invoke" /\ state[r] = "Thinking" /\ iterations[r] < MaxSteps
  /\ llm_out' = [llm_out EXCEPT ![r] = [kind |-> "malformed", tool |-> "none"]]
  /\ exc' = [exc EXCEPT ![r] = "Exception"]
  /\ state' = [state EXCEPT ![r] = "Failed"]
  /\ pc' = [pc EXCEPT ![r] = "except"]
  /\ iterations' = [iterations EXCEPT ![r] = 0]
  /\ transcript' = [transcript EXCEPT ![r] = <<>>]
  /\ UNCHANGED <<inflight, obs, output_str, json_str, resp, store>>

\* the output does not match the Thought/Action format; handle_parsing_errors=True
\* (line 226) turns the parse error into an error note, and the loop asks again
ThinkMalformed(r) ==
  /\ Asking(r)
  /\ llm_out' = [llm_out EXCEPT ![r] = [kind |-> "malformed", tool |-> "none"]]
  /\ transcript' = [transcript EXCEPT ![r] = Append(@, Note(r, "parse_error", "none"))]
  /\ iterations' = [iterations EXCEPT ![r] = @ + 1]
  /\ UNCHANGED <<pc, state, inflight, obs, exc, handlervars, store>>

\* Thinking -> Final: the model gives its final answer; invoke returns it as
\* response['output'], which line 256 binds to output_str
ThinkFinal(r, T) ==
  /\ Asking(r)
  /\ \E t \in T : output_str' = [output_str EXCEPT ![r] = PyStr(t)]
  /\ llm_out' = [llm_out EXCEPT ![r] = [kind |-> "final", tool |-> "none"]]
  /\ state' = [state EXCEPT ![r] = "Final"]
  /\ pc' = [pc EXCEPT ![r] = "extract"]
  /\ LeaveLoop(r)
  /\ UNCHANGED <<obs, exc, json_str, resp, store>>

\* the call of the model runtime raises, and the exception leaves invoke
ModelRaises(r) ==
  /\ Asking(r)
  /\ \E e \in {"Exception", "JSONDecodeError"} : exc' = [exc EXCEPT ![r] = e]
  /\ llm_out' = [llm_out EXCEPT ![r] = NoOut]
  /\ state' = [state EXCEPT ![r] = "Failed"]
  /\ pc' = [pc EXCEPT ![r] = "except"]
  /\ LeaveLoop(r)
  /\ UNCHANGED <<obs, handlervars, store>>

\* the step ceiling: the loop stops with its fixed stop message as the output,
\* prose that holds neither a brace nor a fence
StoppedOutput == WORD \o SP \o WORD

StepCeiling(r) ==
  /\ pc[r] = "invoke" /\ state[r] = "Thinking" /\ iterations[r] >= MaxSteps
  /\ output_str' = [output_str EXCEPT ![r] = PyStr(StoppedOutput)]
  /\ state' = [state EXCEPT ![r] = "Failed"]
  /\ pc' = [pc EXCEPT ![r] = "extract"]
  /\ LeaveLoop(r)
  /\ UNCHANGED <<llm_out, obs, exc, json_str, resp, store>>

(***************************************************************************)
(* ActingTool -> Observing: the tool of the invocation in flight runs to   *)
(* its end.  An exception that leaves the tool leaves invoke as well.      *)
(***************************************************************************)
ToolEnds(r, c, res, saw) ==
  /\ inflight' = [inflight EXCEPT ![r] = IF res.raised THEN {} ELSE @ \ {c}]
  /\ obs' = [obs EXCEPT ![r] = [req |-> r, tool |-> c.tool, input |-> c.input,
                                raised |-> res.raised, holds |-> res.holds,
                                store_called |-> res.store_called, wrote |-> res.wrote,
                                saw |-> saw]]
  /\ IF res.raised
     THEN /\ state' = [state EXCEPT ![r] = "Failed"]
          /\ exc' = [exc EXCEPT ![r] = "Exception"]
          /\ pc' = [pc EXCEPT ![r] = "except"]
          /\ iterations' = [iterations EXCEPT ![r] = 0]
          /\ transcript' = [transcript EXCEPT ![r] = <<>>]
     ELSE /\ state' = [state EXCEPT ![r] = "Observing"]
          /\ UNCHANGED <<exc, pc, iterations, transcript>>
  /\ UNCHANGED <<llm_out, handlervars>>

Acting(r, c, tool) ==
  pc[r] = "invoke" /\ state[r] = "ActingTool" /\ c \in inflight[r] /\ c.tool = tool

RunQueryFinancialData(r) ==
  \E c \in inflight[r] :
    /\ Acting(r, c, "query_financial_data")
    /\ \E outcome \in SqlOutcomes(c.input) :
         LET res == query_financial_data(c.input, outcome)
         IN  /\ store' = IF res.wrote THEN r ELSE store
             /\ ToolEnds(r, c, res, IF res.wrote THEN r ELSE store)

RunGetClientProfile(r) ==
  \E c \in inflight[r] :
    /\ Acting(r, c, "get_client_profile_by_name")
    /\ \E outcome \in FindOneOutcomes(c.input) :
         ToolEnds(r, c, get_client_profile_by_name(c.input, outcome), 0)
    /\ UNCHANGED store

RunFindClients(r) ==
  \E c \in inflight[r] :
    /\ Acting(r, c, "find_clients_by_risk_appetite")
    /\ \E outcome \in FindOutcomes :
         ToolEnds(r, c, find_clients_by_risk_appetite(c.input, outcome), 0)
    /\ UNCHANGED store

\* the observation joins one transcript that all requests share
Observe_SharedTranscript(r) ==
  /\ pc[r] = "invoke" /\ state[r] = "Observing"
  /\ transcript' = [q \in Requests |->
       IF pc[q] = "invoke"
       THEN Append(transcript[q], [req |-> obs[r].req, kind |-> "observation",
                                   tool |-> obs[r].tool, saw |-> obs[r].saw])
       ELSE transcript[q]]
  /\ obs' = [obs EXCEPT ![r] = NoObs]
  /\ iterations' = [q \in Requests |-> IF pc[q] = "invoke" THEN iterations[q] + 1
                                        ELSE iterations[q]]
  /\ state' = [state EXCEPT ![r] = "Thinking"]
  /\ UNCHANGED <<pc, llm_out, inflight, exc, output_str, json_str, resp, store>>

\* Observing -> Thinking: the observation joins the transcript
Observe(r) ==
  /\ pc[r] = "invoke" /\ state[r] = "Observing"
  /\ transcript' = [transcript EXCEPT ![r] =
       Append(@, [req |-> obs[r].req, kind |-> "observation", tool |-> obs[r].tool,
                  saw |-> obs[r].saw])]
  /\ obs' = [obs EXCEPT ![r] = NoObs]
  /\ iterations' = [iterations EXCEPT ![r] = @ + 1]
  /\ state' = [state EXCEPT ![r] = "Thinking"]
  /\ UNCHANGED <<pc, llm_out, inflight, exc, handlervars, store>>

(***************************************************************************)
(* handle_query after invoke: lines 258-279.                               *)
(***************************************************************************)
\* lines 258-266
Extract(r) ==
  /\ pc[r] = "extract"
  /\ json_str' = [json_str EXCEPT ![r] = extract_json(output_str[r].s)]
  /\ pc' = [pc EXCEPT ![r] = "respond"]
  /\ UNCHANGED <<loopvars, exc, output_str, resp, store>>

\* lines 268-272
Respond(r) ==
  /\ pc[r] = "respond"
  /\ IF ~Truthy(json_str[r])
     THEN /\ resp' = [resp EXCEPT ![r] = Ok(ExtractionError)]
          /\ pc' = [pc EXCEPT ![r] = "done"]
          /\ UNCHANGED exc
     ELSE LET v == json_loads(json_str[r].s)
          IN  IF v.ok
              THEN /\ resp' = [resp EXCEPT ![r] = Ok(v.val)]
                   /\ pc' = [pc EXCEPT ![r] = "done"]
                   /\ UNCHANGED exc
              ELSE /\ exc' = [exc EXCEPT ![r] = "JSONDecodeError"]
                   /\ pc' = [pc EXCEPT ![r] = "except"]
                   /\ UNCHANGED resp
  /\ UNCHANGED <<loopvars, output_str, json_str, store>>

\* the locals bound before the try: the clause answers with its envelope also
\* when invoke raised
ExceptJSONDecodeError_Prebound(r) ==
  /\ pc[r] = "except" /\ exc[r] = "JSONDecodeError"
  /\ resp' = [resp EXCEPT ![r] = Ok(DecodeError(output_str[r].s))]
  /\ pc' = [pc EXCEPT ![r] = "done"]
  /\ obs' = [obs EXCEPT ![r] = NoObs]
  /\ UNCHANGED <<state, iterations, transcript, llm_out, inflight, exc, output_str,
                 json_str, store>>

\* the except clauses in the other order: "except Exception" takes the decode
\* error too
ExceptJSONDecodeError_Shadowed(r) ==
  /\ pc[r] = "except" /\ exc[r] = "JSONDecodeError"
  /\ resp' = [resp EXCEPT ![r] = HttpError("str(e)")]
  /\ pc' = [pc EXCEPT ![r] = "done"]
  /\ obs' = [obs EXCEPT ![r] = NoObs]
  /\ UNCHANGED <<state, iterations, transcript, llm_out, inflight, exc, output_str,
                 json_str, store>>

\* lines 274-276: the clause reads json_str and output_str; when invoke raised
\* neither is bound, and the UnboundLocalError leaves the handler
ExceptJSONDecodeError(r) ==
  /\ pc[r] = "except" /\ exc[r] = "JSONDecodeError"
  /\ resp' = [resp EXCEPT ![r] = IF json_str[r] = Unbound \/ output_str[r] = Unbound
                                 THEN Unhandled
                                 ELSE Ok(DecodeError(output_str[r].s))]
  /\ pc' = [pc EXCEPT ![r] = "done"]
  /\ obs' = [obs EXCEPT ![r] = NoObs]
  /\ UNCHANGED <<state, iterations, transcript, llm_out, inflight, exc, output_str,
                 json_str, store>>

\* lines 277-279
ExceptException(r) ==
  /\ pc[r] = "except" /\ exc[r] = "Exception"
  /\ resp' = [resp EXCEPT ![r] = HttpError("str(e)")]
  /\ pc' = [pc EXCEPT ![r] = "done"]
  /\ obs' = [obs EXCEPT ![r] = NoObs]
  /\ UNCHANGED <<state, iterations, transcript, llm_out, inflight, exc, output_str,
                 json_str, store>>

(***************************************************************************)
(* Specifications.                                                         *)
(***************************************************************************)
\* the steps of the agent loop
AgentStep(r, T, I) ==
  \/ ThinkAction(r, I)
  \/ ThinkInvalidTool(r)
  \/ ThinkMalformed(r)
  \/ ThinkFinal(r, T)
  \/ ModelRaises(r)
  \/ StepCeiling(r)
  \/ RunQueryFinancialData(r)
  \/ RunGetClientProfile(r)
  \/ RunFindClients(r)
  \/ Observe(r)

\* the steps of handle_query around it
HandlerStep(r) ==
  \/ Receive(r)
  \/ Extract(r)
  \/ Respond(r)
  \/ ExceptJSONDecodeError(r)
  \/ ExceptException(r)

Step(r, T, I) == AgentStep(r, T, I) \/ HandlerStep(r)

\* one request, every final-answer text
Next == Step(1, Texts, ToolInputs)

Spec == Init /\ [][Next]_vars

\* the final answers of the runs that look at the loop: prose, a fenced
\* object, a malformed object
LoopTexts == {WORD, OPEN \o OBJ \o FENCE, LB \o WORD \o RB}

\* one request; invoke is a synchronous call, so its loop takes its next step
\* whenever it has one (the model and the stores answer each call)
LiveNext == Step(1, LoopTexts, ToolInputs)

LiveSpec == Init /\ [][LiveNext]_vars /\ WF_vars(AgentStep(1, LoopTexts, ToolInputs))

\* the requests served concurrently; the tool inputs of these runs: the empty
\* string, a query that reads and one that writes
ConcInputs == {"", "SELECT", "DELETE"}

ConcNext == \E r \in Requests : Step(r, LoopTexts, ConcInputs)

ConcSpec == Init /\ [][ConcNext]_vars

(***************************************************************************)
(* Lines 258-276 as one function of the final-answer text: the response    *)
(* the handler gives once invoke has returned that text.                   *)
(***************************************************************************)
normalize(text) ==
  LET candidate == extract_json(text)
  IN  IF ~Truthy(candidate) THEN Ok(ExtractionError)
      ELSE LET v == json_loads(candidate.s)
           IN  IF v.ok THEN Ok(v.val) ELSE Ok(DecodeError(text))

(***************************************************************************)
(* Vocabulary of the properties.                                           *)
(***************************************************************************)
\* the request is answered and invoke had returned a final-answer text
Answered(r) == pc[r] = "done" /\ output_str[r] # Unbound

\* the text holds a fenced json block: a "~~~json" and a "~~~" after it
HasFencedBlock(t) == \E i \in Opens(t) : Closes(t, i + Len(OPEN)) # {}

\* the fenced json blocks of the text: each "~~~json" with the text up to the
\* next "~~~"
BlockInteriors(t) ==
  {Slice(t, i + Len(OPEN), Least(Closes(t, i + Len(OPEN)))) :
     i \in {k \in Opens(t) : Closes(t, k + Len(OPEN)) # {}}}

\* the interior of the leftmost fenced json block
FirstInterior(t) ==
  LET i == Least(Opens(t)) IN Slice(t, i + Len(OPEN), Least(Closes(t, i + Len(OPEN))))

Positions(t, c) == {i \in 1..Len(t) : t[i] = c}

NoBraces(t) == Positions(t, "{") = {} /\ Positions(t, "}") = {}

AllSpace(t) == \A i \in 1..Len(t) : IsSpace(t[i])

FinalAnswerTypes == {"text", "table", "chart", "error"}

IsFinalAnswer(response) ==
  /\ response.status = 200
  /\ response.media = "json"
  /\ DOMAIN response.body = {"type", "data"}
  /\ response.body.type \in FinalAnswerTypes

\* the request failed at the HTTP level
HttpFailure(response) == response.status >= 300

\* the exception did not come from the normalizer's decoding of a candidate
RaisedOutsideNormalizer(r) ==
  exc[r] = "Exception" \/ (exc[r] = "JSONDecodeError" /\ json_str[r] = Unbound)

(***************************************************************************)
(* C1.  As stated: every response body of POST /api/query is a             *)
(* FinalAnswer, an object with exactly the keys type and data and a type   *)
(* among text, table, chart, error, sent as a normal response; failures    *)
(* are coerced into type error.                                            *)
(***************************************************************************)
C1_EveryResponseIsFinalAnswer ==
  \A r \in Requests : pc[r] = "done" => IsFinalAnswer(resp[r])

(***************************************************************************)
(* C1, amended.  Every answered request ends in exactly one of four ways:  *)
(* an HTTP 500 when an exception came from outside the normalizer's        *)
(* decoding; the extraction-error envelope, which is a FinalAnswer; the    *)
(* decode-error envelope, of type error with the three keys type, data     *)
(* and raw_output; or the parsed candidate, sent as it is, which is a      *)
(* FinalAnswer exactly when the model's JSON is one.                       *)
(***************************************************************************)
C1_ResponseShapes ==
  \A r \in Requests : pc[r] = "done" =>
    IF RaisedOutsideNormalizer(r)
    THEN HttpFailure(resp[r]) /\ ~IsFinalAnswer(resp[r])
    ELSE /\ resp[r].status = 200 /\ resp[r].media = "json"
         /\ IF ~Truthy(json_str[r])
            THEN IsFinalAnswer(resp[r]) /\ resp[r].body.type = "error"
            ELSE IF exc[r] = "JSONDecodeError"
            THEN /\ DOMAIN resp[r].body = {"type", "data", "raw_output"}
                 /\ resp[r].body.type = "error"
            ELSE /\ resp[r].body = json_loads(json_str[r].s).val
                 /\ IsFinalAnswer(resp[r]) <=>
                      /\ DOMAIN json_loads(json_str[r].s).val = {"type", "data"}
                      /\ json_loads(json_str[r].s).val.type \in FinalAnswerTypes

\* a request answered with the decode-error envelope, which has three keys
C1_Witness ==
  /\ pc[1] = "done"
  /\ resp[1].status = 200
  /\ DOMAIN resp[1].body = {"type", "data", "raw_output"}

(***************************************************************************)
(* C2.  An exception raised during the agent invocation, of whatever type  *)
(* and also before any output text exists, ends the request with an HTTP   *)
(* failure and never with a type-error envelope; an extraction or decode   *)
(* error of the normalizer ends it with a normal response whose body has   *)
(* type error, never with an HTTP failure.                                 *)
(***************************************************************************)
C2_TwoTiers ==
  \A r \in Requests : pc[r] = "done" =>
    /\ RaisedOutsideNormalizer(r) =>
         /\ HttpFailure(resp[r])
         /\ "type" \notin DOMAIN resp[r].body
    /\ (/\ output_str[r] # Unbound
        /\ \/ ~Truthy(json_str[r])
           \/ ~json_loads(json_str[r].s).ok) =>
         /\ resp[r].status = 200
         /\ resp[r].media = "json"
         /\ "type" \in DOMAIN resp[r].body
         /\ resp[r].body.type = "error"

\* invoke raised a JSONDecodeError before any output text existed, and the
\* request ended with an HTTP failure
C2_Witness ==
  /\ pc[1] = "done"
  /\ exc[1] = "JSONDecodeError"
  /\ output_str[1] = Unbound
  /\ HttpFailure(resp[1])

(***************************************************************************)
(* C3.  As stated: whenever extraction yields no candidate string (no      *)
(* fenced json block and no "{" at all; a "{" with no later "}"; an empty  *)
(* fenced block) the response is exactly {"type":"error","data":"the model *)
(* did not return a valid JSON response"}.                                 *)
(***************************************************************************)
C3_NoCandidate(t) ==
  IF HasFencedBlock(t) THEN AllSpace(FirstInterior(t))
  ELSE \/ Positions(t, "{") = {}
       \/ \A j \in Positions(t, "}") : j < Least(Positions(t, "{"))

C3_MissingJsonAsStated ==
  \A r \in Requests : Answered(r) /\ C3_NoCandidate(output_str[r].s) =>
    resp[r] = Ok([type |-> "error", data |-> "the model did not return a valid JSON response"])

(***************************************************************************)
(* C3, amended.  In each of those cases the response is the normal         *)
(* response {"type":"error","data":"The model did not return a valid JSON  *)
(* response."}, and neither a decode error nor an exception.               *)
(***************************************************************************)
C3_MissingJson ==
  \A r \in Requests : Answered(r) /\ C3_NoCandidate(output_str[r].s) =>
    /\ resp[r] = Ok([type |-> "error",
                     data |-> "The model did not return a valid JSON response."])
    /\ exc[r] = "none"

\* answered: a text with a "{" and no later "}", and no fenced block
C3_Witness ==
  /\ Answered(1)
  /\ output_str[1].s = RB \o LB
  /\ resp[1].body.type = "error"

(***************************************************************************)
(* C4.  As stated: when the candidate string extracted is not empty and    *)
(* does not parse as JSON, the response is an envelope of type error with  *)
(* data "failed to decode the JSON response", and no exception reaches     *)
(* the caller.                                                             *)
(***************************************************************************)
C4_Malformed(r) ==
  /\ Answered(r)
  /\ json_str[r].py = "str" /\ json_str[r].s # <<>>
  /\ ~json_loads(json_str[r].s).ok

C4_MalformedJsonAsStated ==
  \A r \in Requests : C4_Malformed(r) =>
    /\ resp[r].status = 200
    /\ resp[r].body.type = "error"
    /\ resp[r].body.data = "failed to decode the JSON response"

(***************************************************************************)
(* C4, amended.  In that case the response is the normal response          *)
(* {"type":"error","data":"Failed to decode the JSON response from the     *)
(* model.","raw_output": the whole final-answer text}.                     *)
(***************************************************************************)
C4_MalformedJson ==
  \A r \in Requests : C4_Malformed(r) =>
    resp[r] = Ok([type |-> "error",
                  data |-> "Failed to decode the JSON response from the model.",
                  raw_output |-> Str(output_str[r].s)])

\* answered: the text {x}, whose candidate {x} is no JSON
C4_Witness ==
  /\ Answered(1)
  /\ output_str[1].s = LB \o WORD \o RB
  /\ json_str[1].s = LB \o WORD \o RB
  /\ resp[1].body.type = "error"

(***************************************************************************)
(* C5.  As stated: when the final-answer text holds a fenced json block    *)
(* whose interior parses as the JSON value V, the response is exactly V.   *)
(***************************************************************************)
C5_AnyFencedBlockPassesThrough ==
  \A r \in Requests : Answered(r) =>
    \A interior \in BlockInteriors(output_str[r].s) :
      json_loads(strip(interior)).ok => resp[r] = Ok(json_loads(strip(interior)).val)

(***************************************************************************)
(* C5, amended.  When the interior of the leftmost fenced json block (the  *)
(* text between the first "~~~json" and the first "~~~" after it) parses   *)
(* as V, the response is exactly V: the fenced {"type":"text","data":"X"}  *)
(* comes back as {"type":"text","data":"X"}, and a value without type or   *)
(* data, such as {}, comes back unchanged.                                 *)
(***************************************************************************)
C5_FirstFencedBlockPassesThrough ==
  \A r \in Requests : Answered(r) =>
    /\ (/\ HasFencedBlock(output_str[r].s)
        /\ json_loads(strip(FirstInterior(output_str[r].s))).ok) =>
         resp[r] = Ok(json_loads(strip(FirstInterior(output_str[r].s))).val)
    /\ output_str[r].s \in {OPEN \o OBJ \o FENCE, OPEN \o SP \o OBJ \o FENCE,
                            OPEN \o OBJ \o SP \o FENCE, OPEN \o OBJ \o FENCE \o FENCE} =>
         resp[r] = Ok([type |-> "text", data |-> "X"])
    /\ output_str[r].s = OPEN \o LB \o RB \o FENCE =>
         resp[r].status = 200 /\ DOMAIN resp[r].body = {}

\* answered: the fenced {"type":"text","data":"X"}
C5_Witness ==
  /\ Answered(1)
  /\ output_str[1].s = OPEN \o OBJ \o FENCE
  /\ resp[1] = Ok([type |-> "text", data |-> "X"])

(***************************************************************************)
(* C6.  As stated: for a JSON object O and prose around it, the whole text *)
(* holding no fenced json block and no brace outside O, the response is    *)
(* the one given for O wrapped in a fenced json block; the fenced block is *)
(* the candidate whenever the text holds one, and the first-"{"-to-last-   *)
(* "}" substring only when it holds none.                                  *)
(***************************************************************************)
\* the ways to read t as prose, a JSON object, prose
C6_Objects(t) ==
  {O \in {SubSeq(t, a, b) : a \in Positions(t, "{"), b \in Positions(t, "}")} :
     /\ O # <<>>
     /\ json_loads(O).ok
     /\ \E a \in Positions(t, "{") :
          /\ a + Len(O) - 1 <= Len(t)
          /\ SubSeq(t, a, a + Len(O) - 1) = O
          /\ NoBraces(SubSeq(t, 1, a - 1))
          /\ NoBraces(SubSeq(t, a + Len(O), Len(t)))}

C6_CandidateChoice(r) ==
  pc[r] \in {"respond", "done"} /\ output_str[r] # Unbound =>
    IF HasFencedBlock(output_str[r].s)
    THEN json_str[r] = PyStr(strip(FirstInterior(output_str[r].s)))
    ELSE IF Positions(output_str[r].s, "{") = {} THEN json_str[r] = PyNone
    ELSE json_str[r] = PyStr(SubSeq(output_str[r].s,
                                    Least(Positions(output_str[r].s, "{")),
                                    Greatest(Positions(output_str[r].s, "}") \cup {0})))

C6_FallbackAsStated ==
  \A r \in Requests :
    /\ C6_CandidateChoice(r)
    /\ Answered(r) /\ ~HasFencedBlock(output_str[r].s) =>
         \A O \in C6_Objects(output_str[r].s) :
           resp[r].body = normalize(OPEN \o O \o FENCE).body

(***************************************************************************)
(* C6, amended.  The same, for every JSON object O that does not itself    *)
(* hold three backticks in a row.                                          *)
(***************************************************************************)
C6_Fallback ==
  \A r \in Requests :
    /\ C6_CandidateChoice(r)
    /\ Answered(r) /\ ~HasFencedBlock(output_str[r].s) =>
         \A O \in C6_Objects(output_str[r].s) :
           Closes(O, 0) = {} =>
             /\ resp[r] = normalize(OPEN \o O \o FENCE)
             /\ resp[r] = Ok(json_loads(O).val)

\* answered: an object between two words of prose
C6_Witness ==
  /\ Answered(1)
  /\ output_str[1].s = WORD \o OBJ \o WORD
  /\ resp[1] = Ok([type |-> "text", data |-> "X"])

(***************************************************************************)
(* C7.  Each of the three tools returns a string and lets no exception     *)
(* out, whatever its input and whatever the store call does;               *)
(* find_clients_by_risk_appetite with a level outside High, Medium, Low    *)
(* (case-insensitively) and get_client_profile_by_name with the empty      *)
(* string return a JSON error object without calling the store.            *)
(***************************************************************************)
C7_ToolsNeverRaise ==
  \A r \in Requests : obs[r] # NoObs =>
    /\ ~obs[r].raised
    /\ obs[r].holds # "nothing"
    /\ (/\ obs[r].tool = "find_clients_by_risk_appetite"
        /\ obs[r].input \notin {"HIGH", "High", "high", "MEDIUM", "Medium", "medium",
                                "LOW", "Low", "low"}) =>
         obs[r].holds = "json error object" /\ ~obs[r].store_called
    /\ (obs[r].tool = "get_client_profile_by_name" /\ obs[r].input = "") =>
         obs[r].holds = "json error object" /\ ~obs[r].store_called

\* the part of C7 that the code keeps: the two rejected inputs, and the SQL
\* tool whose store call raised
C7_RejectedInputs ==
  \A r \in Requests : obs[r] # NoObs =>
    /\ obs[r].tool = "query_financial_data" => ~obs[r].raised /\ obs[r].holds # "nothing"
    /\ (/\ obs[r].tool = "find_clients_by_risk_appetite"
        /\ obs[r].input \notin {"HIGH", "High", "high", "MEDIUM", "Medium", "medium",
                                "LOW", "Low", "low"}) =>
         ~obs[r].raised /\ obs[r].holds = "json error object" /\ ~obs[r].store_called
    /\ (obs[r].tool = "get_client_profile_by_name" /\ obs[r].input = "") =>
         ~obs[r].raised /\ obs[r].holds = "json error object" /\ ~obs[r].store_called

(***************************************************************************)
(* C8.  Whatever the model puts out, the agent loop started in Thinking    *)
(* reaches Final or Failed: the step count never passes the ceiling, at    *)
(* the ceiling the only step left leads to Failed, and the loop does not   *)
(* go on for ever.                                                         *)
(***************************************************************************)
C8_LoopTerminates ==
  /\ [](iterations[1] <= MaxSteps /\ Len(transcript[1]) <= MaxSteps)
  /\ [][(pc[1] = "invoke" /\ state[1] = "Thinking" /\ iterations[1] >= MaxSteps)
          => state'[1] = "Failed"]_vars
  /\ (state[1] = "Thinking") ~> (state[1] \in {"Final", "Failed"})

\* the loop stopped at the ceiling, with its stop message as the output
C8_Witness ==
  /\ state[1] = "Failed"
  /\ pc[1] = "extract"
  /\ output_str[1] = PyStr(StoppedOutput)

(***************************************************************************)
(* C9.  A tool runs only under one of the three registered names; when     *)
(* the model names another tool, or its output does not match the          *)
(* Thought/Action format, no tool runs and the loop is back in Thinking    *)
(* with an error note in the transcript, without aborting: from there it   *)
(* fails only by reaching the step ceiling.                                *)
(***************************************************************************)
C9_Rejected(r) ==
  \/ llm_out[r].kind = "malformed"
  \/ llm_out[r].kind = "action" /\ llm_out[r].tool \notin RegisteredTools

C9_OnlyRegisteredToolsRun ==
  \A r \in Requests :
    /\ \A c \in inflight[r] : c.tool \in RegisteredTools
    /\ obs[r] # NoObs => obs[r].tool \in RegisteredTools
    /\ \A i \in 1..Len(transcript[r]) :
         transcript[r][i].kind = "observation" => transcript[r][i].tool \in RegisteredTools
    /\ C9_Rejected(r) =>
         /\ inflight[r] = {} /\ obs[r] = NoObs
         /\ exc[r] = "none"
         /\ IF pc[r] = "invoke"
            THEN /\ state[r] = "Thinking"
                 /\ transcript[r] # <<>>
                 /\ transcript[r][Len(transcript[r])].kind =
                      (IF llm_out[r].kind = "malformed" THEN "parse_error" ELSE "invalid_tool")
            ELSE state[r] = "Failed" /\ output_str[r] = PyStr(StoppedOutput)

\* the model named an unregistered tool and is being asked again
C9_Witness ==
  /\ pc[1] = "invoke"
  /\ llm_out[1] = [kind |-> "action", tool |-> "unknown_tool"]
  /\ state[1] = "Thinking"
  /\ iterations[1] < MaxSteps

(***************************************************************************)
(* C10.  As stated: within a request at most one tool call is in flight    *)
(* and its observation is in the transcript before the model is asked      *)
(* again; each request's loop state is its own, so that one request's      *)
(* tool calls and observations neither appear in another request's         *)
(* transcript nor change what another request observes.                    *)
(***************************************************************************)
C10_Sequential(r) ==
  /\ Cardinality(inflight[r]) <= 1
  /\ inflight[r] # {} <=> (pc[r] = "invoke" /\ state[r] = "ActingTool")
  /\ (pc[r] = "invoke" /\ state[r] = "Thinking") => obs[r] = NoObs
  /\ Len(transcript[r]) = iterations[r]

C10_OwnTranscript(r) ==
  /\ \A i \in 1..Len(transcript[r]) : transcript[r][i].req = r
  /\ obs[r] # NoObs => obs[r].req = r

C10_IsolatedAsStated ==
  \A r \in Requests :
    /\ C10_Sequential(r)
    /\ C10_OwnTranscript(r)
    /\ \A i \in 1..Len(transcript[r]) : transcript[r][i].saw \in {0, r}
    /\ obs[r] # NoObs => obs[r].saw \in {0, r}

(***************************************************************************)
(* C10, amended.  The loop is sequential and each request's transcript     *)
(* holds its own notes and observations only; what a request observes can  *)
(* still come from another request, through the relational store that      *)
(* query_financial_data lets either of them change.                        *)
(***************************************************************************)
C10_LoopStateLocal ==
  \A r \in Requests : C10_Sequential(r) /\ C10_OwnTranscript(r)

\* both requests are in their loops, each with an observation of its own
C10_Witness ==
  /\ pc[1] = "invoke" /\ pc[2] = "invoke"
  /\ transcript[1] # <<>> /\ transcript[1][1].kind = "observation"
  /\ state[2] = "Observing" /\ obs[2].req = 2

============================================================================
